---- MODULE Spec2Model ----
(***************************************************************************)
(* The navigation engine of the merchandise store bot: the Paginator       *)
(* (src/bot/misc/paginator.py) over a lazily loaded tree of PageNodes, as   *)
(* hosted by the Catalog, FAQ and Cart scenes (src/bot/handlers).           *)
(*                                                                         *)
(* One action is one turn of one user: the scene handler reads the          *)
(* Paginator from the FSM session, runs the transition, renders, and        *)
(* writes the Paginator back unless an exception ended the turn.            *)
(*                                                                         *)
(* Around the engine: the FSM state of the conversation (MainMenu, the      *)
(* three scenes, the ProductProcessing states), the "return to main menu"   *)
(* handler, the add-to-cart flow and the cart's remove and order actions.   *)
(* Session data is cleared on every way from one scene to another, so one   *)
(* behaviour follows the user through the main menu and one of the scenes.  *)
(***************************************************************************)
EXTENDS Integers, Sequences, FiniteSets, TLC

(* ------------------------------ bounds -------------------------------- *)

\* Largest number of entries the database holds under the root node.
MaxRootItems == 2
\* Largest number of products the database holds under one category.
MaxSubItems == 1
\* Largest configured page size in the general specification.
MaxPageSize == 2
\* `next` is not taken beyond this many pages (the code has no upper limit).
MaxPages == 2
\* Number of root entries of Scenario A.
ScenarioAItems == 12
\* Largest stock of a product.
MaxStock == 1
\* Largest quantity a cart line is followed to.
MaxLine == 2
\* Number of events of one user that can be in flight together.
MaxEvents == 2
\* Number of users the sessions of the storage are followed for.
MaxUsers == 2

\* PaginatorConfig.obj_count_per_page
DefaultPageSize == 5

(* ------------------------------ node ids ------------------------------ *)

Root == 0
None == -1

ItemsCap == IF ScenarioAItems > MaxRootItems THEN ScenarioAItems ELSE MaxRootItems
SubCap == MaxSubItems

\* uid of the j-th product of the first (which = 0) or last (which = 1)
\* category of the database.
SubId(which, j) == ItemsCap + which * SubCap + j

\* A uid no loader ever makes.
Bogus == ItemsCap + 2 * SubCap + 1

Nodes == 0 .. Bogus

Scenes == {"catalog", "faq", "cart"}
Actions == {"up", "down", "next", "prev", "current"}
NoTerm == "none"
SearchTerms == {"a"}

Min(a, b) == IF a < b THEN a ELSE b
Max(a, b) == IF a > b THEN a ELSE b
Range(s) == {s[i] : i \in 1 .. Len(s)}
\* Python's s[a:b]: an index below 0 counts from the end, and both ends are
\* clamped to the sequence.
Slice(s, a, b) ==
    LET norm(x) == IF x < 0 THEN Max(Len(s) + x, 0) ELSE Min(x, Len(s))
    IN  SubSeq(s, norm(a) + 1, norm(b))
\* Python's list.index: position (from 0) of x in s, or -1 for ValueError.
IndexOf(s, x) ==
    IF x \in Range(s) THEN (CHOOSE i \in 1 .. Len(s) : s[i] = x /\ \A k \in 1 .. (i - 1) : s[k] # x) - 1
    ELSE -1

VARIABLES
    scene,          \* the scene that hosts the engine
    db,             \* database content: [root |-> n, sub |-> m]
    page_config,    \* obj_count_per_page of the root and of loaded nodes
    children,       \* PageNode.children, as the ordered keys of the dict
    parent,         \* PageNode.parent
    page,           \* Paginator.page of the engine object of the last turn
    cursor,         \* Paginator.cursor of the engine object of the last turn
    paginator_inst, \* the Paginator persisted in the FSM session
    search_term,    \* "search_term" of the FSM session
    view,           \* what the last turn rendered
    last,           \* the event of the last turn, and what it added to the cart
    round_trip,     \* history: a `down` that moved, and the `up` right after it
    active_scene,   \* the FSM state of the conversation
    product_processing, \* "product_processing" of the FSM session
    removed,        \* the cart lines deleted from the database
    lock,           \* the event that holds the lock of the user's FSM key
    turns,          \* the events in flight: where each is, and what it read
    user,           \* the user whose update the dispatcher has routed
    states,         \* the FSM state of every user
    sessions,       \* the engines in the FSM data of every user, by scene
    heap,           \* the PageNode trees, by the identity of the root object
    chat,           \* the renderer's last call: what it was given and what it did
    labels,         \* PageContent.label of the node each database row makes
    listing,        \* a category's rows, and what the catalog loader gave of them
    cart_item,      \* the user's UserCartItem of a product, and the product's stock
    delivery        \* one broadcast message: its task messages in the queue, and its runs

vars == <<scene, db, page_config, children, parent, page, cursor,
          paginator_inst, search_term, view, last, round_trip,
          active_scene, product_processing, removed, lock, turns,
          user, states, sessions, heap, chat, labels, listing, cart_item, delivery>>

config == <<scene, db, page_config, labels>>

\* What the turns of the events in flight work with.
inflight == <<lock, turns>>

\* What lies beside the conversation: the loader called on its own, the
\* cart line the add-to-cart flow writes, and the delivery task.
aside == <<listing, cart_item, delivery>>

\* The storage as a whole: every user's FSM state and data.
storage == <<user, states, sessions, heap>>

(* --------------------------- content source --------------------------- *)

SeqTo(n) == [i \in 1 .. n |-> i]

\* FAQ entries whose question contains the search term.
Matches(term, uid) == term = NoTerm \/ uid % 2 = 0

\* A node made by a loader is a leaf when it is a product, an FAQ entry or a
\* cart line; the root and the catalog's categories are not.
is_leaf_node(uid) ==
    /\ uid # Root
    /\ (scene # "catalog" \/ uid > ItemsCap)

\* The ordered rows the database holds under node uid when the cart lines in
\* gone have been deleted.
Query(uid, search, gone) ==
    IF uid = Root
    THEN IF scene = "faq"
         THEN SelectSeq(SeqTo(db.root), LAMBDA u : Matches(search, u))
         ELSE IF scene = "cart"
         THEN SelectSeq(SeqTo(db.root), LAMBDA u : u \notin gone)
         ELSE SeqTo(db.root)
    ELSE IF scene = "catalog" /\ uid = 1 /\ db.root >= 1
    THEN [j \in 1 .. db.sub |-> SubId(0, j)]
    ELSE IF scene = "catalog" /\ uid = db.root /\ db.root > 1
    THEN [j \in 1 .. db.sub |-> SubId(1, j)]
    ELSE << >>

\* catalog_loader_function, faq_loader_function, cart_loader_function: the
\* rows offset .. offset+limit of the query are fetched, the extra row only
\* tells has_more.  A failing query gives (None, False) in the catalog and
\* the FAQ; the cart loader returns a bare None, which the caller's tuple
\* unpacking turns into a TypeError.
LoaderFunction(uid, limit, offset, search, gone, db_fails) ==
    LET rows == Slice(Query(uid, search, gone), offset, offset + limit + 1)
    IN  IF db_fails
        THEN [raised |-> scene = "cart", data |-> << >>, has_more |-> FALSE]
        ELSE [raised |-> FALSE,
              data |-> IF Len(rows) > limit THEN SubSeq(rows, 1, limit) ELSE rows,
              has_more |-> Len(rows) > limit]

(* ------------------------------ PageNode ------------------------------ *)

PageSize(uid) == IF uid = Root THEN page_config.root ELSE page_config.item

\* Mutant of add_child: a key the dict already holds moves to the end.
add_child_at_end(t, self, uid) ==
    [children |-> [t.children EXCEPT
                      ![self] = Append(SelectSeq(@, LAMBDA k : k # uid), uid),
                      ![uid] = << >>],
     parent |-> [t.parent EXCEPT ![uid] = self]]

\* Mutant of add_child: the parent of the node attached is not set.
add_child_parentless(t, self, uid) ==
    [children |-> [t.children EXCEPT
                      ![self] = IF uid \in Range(@) THEN @ ELSE Append(@, uid),
                      ![uid] = << >>],
     parent |-> t.parent]

\* PageNode.add_child on a tree t = [children, parent]: the dict keeps the
\* position of a key it already holds; the node attached is a new object
\* with no children of its own.
add_child(t, self, uid) ==
    [children |-> [t.children EXCEPT
                      ![self] = IF uid \in Range(@) THEN @ ELSE Append(@, uid),
                      ![uid] = << >>],
     parent |-> [t.parent EXCEPT ![uid] = self]]

\* Mutant of add_children: the nodes given take the place of the known
\* children.
add_children_replacing(t, self, data) ==
    [children |-> [n \in Nodes |-> IF n = self THEN data
                                   ELSE IF n \in Range(data) THEN << >>
                                   ELSE t.children[n]],
     parent |-> [n \in Nodes |-> IF n \in Range(data) THEN self ELSE t.parent[n]]]

RECURSIVE add_children(_, _, _)
add_children(t, self, data) ==
    IF data = << >> THEN t
    ELSE add_children(add_child(t, self, Head(data)), self, Tail(data))

(* --------------------------- KeyboardBuilder -------------------------- *)

\* dict[label] = button: a label already present keeps its place.
DictSet(d, b) ==
    IF \E i \in 1 .. Len(d) : d[i].label = b.label
    THEN [i \in 1 .. Len(d) |-> IF d[i].label = b.label THEN b ELSE d[i]]
    ELSE Append(d, b)

RECURSIVE DictSetAll(_, _)
DictSetAll(d, bs) ==
    IF bs = << >> THEN d ELSE DictSetAll(DictSet(d, Head(bs)), Tail(bs))

\* The names the database rows carry: all different, all the same, or one
\* of them equal to the label of the 'next' control.
ItemNames == [u \in Nodes |-> "item_" \o ToString(u)]
SharedName == [u \in Nodes |-> "item"]
ControlName == [u \in Nodes |-> IF u = 1 THEN "next_btn" ELSE "item_" \o ToString(u)]
Labelings == {ItemNames, SharedName, ControlName}

\* PageContent.label of a loaded node: the name of its row.
Label(uid) == labels[uid]

Button(label, action, uid) == [label |-> label, action |-> action, uid |-> uid]

\* Mutant of ShowsPageNumber: the indicator also appears when the children
\* fill exactly one page.
ShowsPageNumberAtFullPage(total_children, items_per_page) ==
    total_children >= items_per_page

\* create_navigation: the page number is displayed when the known children
\* do not fit one page.
ShowsPageNumber(total_children, items_per_page) == total_children > items_per_page

\* KeyboardBuilder.create_navigation
create_navigation(t, pg, cur, has_more) ==
    LET keys == t.children[pg]
        per == PageSize(pg)
        window == Slice(keys, cur, cur + per)
        n == Len(window)
        kids == DictSetAll(<< >>,
                    [i \in 1 .. n |-> Button(Label(window[i]), "down", window[i])])
        sizes1 == [i \in 1 .. (n \div 2) |-> 2] \o (IF n % 2 = 1 THEN <<1>> ELSE << >>)
        k1 == IF cur > 0 THEN DictSet(kids, Button("prev_btn", "prev", None)) ELSE kids
        k2 == IF ShowsPageNumber(Len(keys), per)
              THEN DictSet(k1, Button(ToString(cur \div per + 1), "current", None))
              ELSE k1
        k3 == IF has_more THEN DictSet(k2, Button("next_btn", "next", None)) ELSE k2
        row == (IF cur > 0 THEN 1 ELSE 0) + (IF ShowsPageNumber(Len(keys), per) THEN 1 ELSE 0)
                 + (IF has_more THEN 1 ELSE 0)
        sizes2 == IF row > 0 THEN Append(sizes1, row) ELSE sizes1
        k4 == IF t.parent[pg] # None THEN DictSet(k3, Button("back_btn", "up", None)) ELSE k3
        sizes3 == IF t.parent[pg] # None THEN Append(sizes2, 1) ELSE sizes2
    IN  [kbd |-> k4, sizes |-> sizes3]

(* ------------------------------ Paginator ----------------------------- *)

\* PaginatorConfig.loader_func: no scene and no loader sets it.
ConfigLoader(uid) == FALSE

EmptyTree == [children |-> [n \in Nodes |-> << >>], parent |-> [n \in Nodes |-> None]]

Tree == [children |-> children, parent |-> parent]

\* Paginator(page=root, loader_func=<the scene's loader>, ...)
NewPaginator == [present |-> TRUE, page |-> Root, cursor |-> 0, loader_func |-> TRUE]

NoPaginator == [present |-> FALSE, page |-> Root, cursor |-> 0, loader_func |-> FALSE]

\* Mutant of NeedsFetch: the leaf flag is not consulted.
NeedsFetchIgnoringLeaf(t, eng) ==
    /\ ~(Len(t.children[eng.page]) > eng.cursor + PageSize(eng.page))
    /\ eng.cursor + PageSize(eng.page) >= Len(t.children[eng.page])
    /\ eng.loader_func

\* Mutant of NeedsFetch: the fetch is made whether or not a loader exists.
NeedsFetchUnconfigured(t, eng) ==
    /\ ~is_leaf_node(eng.page)
    /\ eng.cursor + PageSize(eng.page) >= Len(t.children[eng.page])

\* Mutant of NeedsFetch: no fetch when the window ends exactly at the last
\* known child.
NeedsFetchPastEdge(t, eng) ==
    /\ ~is_leaf_node(eng.page)
    /\ eng.cursor + PageSize(eng.page) > Len(t.children[eng.page])
    /\ (eng.loader_func \/ ConfigLoader(eng.page))

\* The fetch decision of Paginator._get_page_content: the node is no leaf,
\* the known children do not reach beyond the window, and a loader exists.
NeedsFetch(t, eng) ==
    /\ ~is_leaf_node(eng.page)
    /\ ~(Len(t.children[eng.page]) > eng.cursor + PageSize(eng.page))
    /\ eng.cursor + PageSize(eng.page) >= Len(t.children[eng.page])
    /\ (eng.loader_func \/ ConfigLoader(eng.page))

\* Paginator._get_page_content: the fetch decision, the loader call and the
\* navigation keyboard.  calls lists the loader calls made, as (uid, limit,
\* offset) records; failed tells that the database query of a call raised.
_get_page_content(t, eng, search, gone, db_fails) ==
    LET pg == eng.page
        per == PageSize(pg)
        known == Len(t.children[pg])
        fetch == NeedsFetch(t, eng)
        got == LoaderFunction(pg, per, known, search, gone, db_fails)
        calls == IF fetch THEN <<[uid |-> pg, limit |-> per, offset |-> known]>> ELSE << >>
        t1 == IF fetch /\ ~got.raised /\ got.data # << >>
              THEN add_children(t, pg, got.data)
              ELSE t
        has_more == IF is_leaf_node(pg) THEN FALSE
                    ELSE IF known > eng.cursor + per THEN TRUE
                    ELSE IF fetch THEN got.has_more
                    ELSE FALSE
        nav == create_navigation(t1, pg, eng.cursor, has_more)
    IN  IF fetch /\ got.raised
        THEN [raised |-> TRUE, tree |-> t, has_more |-> FALSE, calls |-> calls,
              kbd |-> << >>, sizes |-> << >>, failed |-> TRUE]
        ELSE [raised |-> FALSE, tree |-> t1, has_more |-> has_more, calls |-> calls,
              kbd |-> nav.kbd, sizes |-> nav.sizes, failed |-> fetch /\ db_fails]

(* ------------------------------ renderer ------------------------------ *)

\* What the platform answers to the Bot API calls of one render.  An edit
\* is rejected as Bad Request with "message is not modified", "message
\* can't be edited", "message to edit not found" or another text, or with
\* another TelegramAPIError; a delete or a send as Bad Request or with
\* another TelegramAPIError.
EditResponses == {"ok", "not_modified", "cant_be_edited", "not_found",
                  "bad_request", "api_error"}
CallResponses == {"ok", "bad_request", "api_error"}
Apis == [edit : EditResponses, delete : CallResponses, send : CallResponses]

\* Mutant of error_triggers_resend: only the two edit errors trigger the
\* resend, not the change of content kind.
EditErrorsOnly(error, old, image) == error \in {"cant_be_edited", "not_found"}

\* error_triggers_resend of send_or_edit_message.
error_triggers_resend(error, old, image) ==
    \/ error \in {"cant_be_edited", "not_found"}
    \/ image /\ old = "text"
    \/ ~image /\ old = "photo"

\* utils.send_or_edit_message with its default deleting rules and
\* robust=False: event is "message" or "callback", old the kind of the
\* message the button is on, image whether the new page has one.  shown is
\* what reached the chat, raised whether an exception left the function.
send_or_edit_message(event, old, image, api) ==
    LET mismatch == image # (old = "photo")
        \* bot.send_photo / bot.send_message outside the try block
        new_message == [shown |-> IF api.send = "ok" THEN "sent" ELSE "none",
                        raised |-> api.send # "ok"]
        swallowed == [shown |-> "none", raised |-> FALSE]
        \* the first exception of the try block, "ok" if there is none
        tried == IF ~mismatch THEN api.edit
                 ELSE IF api.delete # "ok" THEN api.delete
                 ELSE api.send
    IN  IF event = "message" THEN new_message
        ELSE IF tried = "ok"
        THEN [shown |-> IF mismatch THEN "sent" ELSE "edited", raised |-> FALSE]
        ELSE IF tried = "api_error" THEN swallowed
        ELSE IF tried = "not_modified" THEN [shown |-> "kept", raised |-> FALSE]
        ELSE IF error_triggers_resend(tried, old, image) THEN new_message
        ELSE swallowed

\* The renderer of a turn whose platform accepts every call.
Delivered == [shown |-> "edited", raised |-> FALSE]

\* No render yet.
NoChat == [event |-> "none", old |-> "text", image |-> FALSE,
           api |-> [edit |-> "ok", delete |-> "ok", send |-> "ok"],
           shown |-> "none", raised |-> FALSE]

\* Paginator.show_page: the content, then the renderer with result rr; an
\* exception of the renderer leaves show_page after the loader has run.
show_page(t, eng, search, gone, db_fails, rr) ==
    LET content == _get_page_content(t, eng, search, gone, db_fails)
    IN  IF ~content.raised /\ rr.raised
        THEN [content EXCEPT !.raised = TRUE, !.kbd = << >>, !.sizes = << >>,
                             !.has_more = FALSE]
        ELSE content

\* Mutant of NavNext: the cursor advances whether or not more can follow.
NavNextAlways(t, eng) == [eng EXCEPT !.cursor = @ + PageSize(eng.page)]

\* Mutant of NavNext: the cursor advances by one item, not by one page.
NavNextByOne(t, eng) == [eng EXCEPT !.cursor = @ + 1]

\* Mutant of NavPrev: the cursor > 0 guard and the floor are missing.
NavPrevUnfloored(t, eng) == [eng EXCEPT !.cursor = @ - PageSize(eng.page)]

\* Mutant of NavDown: the uid is not looked up among the children.
NavDownUnchecked(t, eng, uid) ==
    IF uid # None THEN [eng EXCEPT !.page = uid, !.cursor = 0] ELSE eng

\* Mutant of NavUp: the cursor is the child's index, not its page's start.
NavUpToIndex(t, eng) ==
    LET up == t.parent[eng.page]
    IN  IF up # None
        THEN [eng EXCEPT !.cursor = Max(0, IndexOf(t.children[up], eng.page)), !.page = up]
        ELSE eng

\* Mutant of NavUp: the page is computed with the page size of the child.
NavUpChildSize(t, eng) ==
    LET up == t.parent[eng.page]
        idx == Max(0, IndexOf(t.children[up], eng.page))
    IN  IF up # None
        THEN [eng EXCEPT !.cursor = (idx \div PageSize(eng.page)) * PageSize(eng.page),
                         !.page = up]
        ELSE eng

\* Mutant of NavUp: the parent is shown from its first page.
NavUpToFirstPage(t, eng) ==
    LET up == t.parent[eng.page]
    IN  IF up # None THEN [eng EXCEPT !.cursor = 0, !.page = up] ELSE eng

\* The branches of Paginator.handle_navigation, each giving the new cursor
\* and page of the engine.
NavNext(t, eng) ==
    IF \/ eng.cursor + PageSize(eng.page) < Len(t.children[eng.page])
       \/ ConfigLoader(eng.page)
       \/ eng.loader_func
    THEN [eng EXCEPT !.cursor = @ + PageSize(eng.page)]
    ELSE eng

NavPrev(t, eng) ==
    IF eng.cursor > 0
    THEN [eng EXCEPT !.cursor = Max(0, @ - PageSize(eng.page))]
    ELSE eng

NavDown(t, eng, uid) ==
    IF uid # None /\ uid \in Range(t.children[eng.page])
    THEN [eng EXCEPT !.page = uid, !.cursor = 0]
    ELSE eng

NavUp(t, eng) ==
    LET up == t.parent[eng.page]
        idx == IndexOf(t.children[up], eng.page)
    IN  IF up # None
        THEN [eng EXCEPT
                 !.cursor = IF idx >= 0
                            THEN (idx \div PageSize(up)) * PageSize(up)
                            ELSE 0,
                 !.page = up]
        ELSE eng

\* Paginator.handle_navigation up to its closing show_page.
Transition(t, eng, action, uid) ==
    CASE action = "next" -> NavNext(t, eng)
      [] action = "prev" -> NavPrev(t, eng)
      [] action = "down" -> NavDown(t, eng, uid)
      [] action = "up" -> NavUp(t, eng)
      [] OTHER -> eng

\* What a turn leaves on the screen.
Rendered(r) ==
    [outcome |-> IF r.raised THEN "raised" ELSE "rendered",
     kbd |-> r.kbd, sizes |-> r.sizes, has_more |-> r.has_more, calls |-> r.calls,
     failed |-> r.failed]

NoView == [outcome |-> "none", kbd |-> << >>, sizes |-> << >>, has_more |-> FALSE,
           calls |-> << >>, failed |-> FALSE]

\* A turn that answers with a message of its own, or with a callback alert,
\* and renders no page.
Message(text) == [NoView EXCEPT !.outcome = text]

(* ------------------------------- scenes ------------------------------- *)

\* The search term a scene hands to show_page / handle_navigation.
SceneSearch == IF scene = "faq" THEN search_term ELSE NoTerm

\* Mutant of Finish: the turn ends without the render.
FinishUnrendered(eng, r) ==
    /\ page' = eng.page
    /\ cursor' = eng.cursor
    /\ UNCHANGED <<children, parent>>
    /\ view' = NoView
    /\ paginator_inst' = eng

\* The end of a turn that took engine eng through show_page with result r:
\* state.update_data(..._paginator_inst=...) is reached only if nothing raised.
Finish(eng, r) ==
    /\ page' = eng.page
    /\ cursor' = eng.cursor
    /\ children' = r.tree.children
    /\ parent' = r.tree.parent
    /\ view' = Rendered(r)
    /\ paginator_inst' = IF r.raised THEN paginator_inst ELSE eng

NoTrip == [step |-> "none", child |-> None, cursor |-> 0]

\* A turn that ends before any engine is used.
Dropped ==
    /\ view' = NoView
    /\ UNCHANGED <<page, cursor, children, parent, paginator_inst>>

\* No UserCartItem of the product (quantity 0), the product out of stock.
\* repeated records that the confirm turn that ran last came right after a
\* confirm turn that had written the line.
NoLine == [stock |-> 0, quantity |-> 0, repeated |-> FALSE]

\* max_retries of send_single_telegram_message_task
MaxRetries == 3

\* The retries counts a task message of the queue can carry.
Retries == 0 .. MaxRetries

\* No task of the broadcast message in the queue, none run.  pending[r] is
\* the number of task messages in the queue whose request.retries is r; ran
\* is the latest run: the retries count of its request, what the sender
\* did and the number of task messages the run put into the queue.
NoDelivery ==
    [pending |-> [r \in Retries |-> 0], attempts |-> 0, sent |-> FALSE,
     ran |-> [retries |-> None, outcome |-> "none", scheduled |-> 0]]

\* The session holds no product in progress.
NoProduct == [present |-> FALSE, product_id |-> None, quantity |-> None]

\* What the add-to-cart flow and the cart's remove action keep.
flow == <<product_processing, removed>>

\* The FSM states of the conversation; "none" is no state at all.
NavigationScenes == Scenes
ProductProcessing == {"set_quantity", "confirm"}
ActiveScenes == {"main_menu"} \cup NavigationScenes \cup ProductProcessing

\* Mutant of on_enter: the scene is entered with an engine of its own, never
\* with the one the session holds.
on_enter_fresh(db_fails, total_fails) ==
    /\ total_fails => scene = "cart"
    /\ db_fails => ~total_fails /\ NeedsFetch(EmptyTree, NewPaginator)
    /\ IF total_fails
       THEN Dropped
       ELSE \E r \in {show_page(EmptyTree, NewPaginator, SceneSearch, removed, db_fails, Delivered)} :
                Finish(NewPaginator, r)
    /\ round_trip' = NoTrip

\* Catalog.on_enter, FAQ.on_enter, Cart.on_enter.  Here and below db_fails
\* is the failure of the database query of the turn's loader call, so it is
\* an input only of a turn that makes one.
on_enter(db_fails, total_fails) ==
    LET fresh == ~paginator_inst.present
        eng == IF fresh THEN NewPaginator ELSE paginator_inst
        t == IF fresh THEN EmptyTree ELSE Tree
    IN  /\ total_fails => scene = "cart"
        /\ db_fails => ~total_fails /\ NeedsFetch(t, eng)
        /\ IF total_fails
           THEN Dropped
           ELSE \E r \in {show_page(t, eng, SceneSearch, removed, db_fails, Delivered)} : Finish(eng, r)
        /\ round_trip' = NoTrip

\* Mutant of MenuStates: the command is not handled while a product is in
\* progress.
MenuStatesOutsideProcessing == {"none", "main_menu"} \cup NavigationScenes

\* The FSM states in which private.start_menu handles its event: it is
\* registered without a state filter, so every one, and no state at all.
MenuStates == {"none"} \cup ActiveScenes

\* private.start_menu (/menu or "goto_main_menu"), then MainMenu.on_enter:
\* state.clear() drops the FSM state and all session data, and with them
\* the engine and its nodes.
Menu ==
    /\ active_scene \in MenuStates
    /\ last' = [action |-> "menu", uid |-> None, from |-> active_scene]
    /\ active_scene' = "main_menu"
    /\ paginator_inst' = NoPaginator
    /\ search_term' = NoTerm
    /\ product_processing' = NoProduct
    /\ children' = EmptyTree.children
    /\ parent' = EmptyTree.parent
    /\ page' = Root
    /\ cursor' = 0
    /\ view' = Message("main_menu")
    /\ round_trip' = NoTrip
    /\ UNCHANGED <<config, inflight, storage, chat, aside, removed>>

\* MainMenu.goto_game_menu, goto_statistics, goto_leader_board: wizard.goto
\* sets the FSM state and runs the scene's on_enter.
Enter(db_fails, total_fails) ==
    /\ active_scene = "main_menu"
    /\ last' = [action |-> "enter", uid |-> None]
    /\ active_scene' = scene
    /\ on_enter(db_fails, total_fails)
    /\ UNCHANGED <<config, inflight, storage, chat, aside, search_term, flow>>

\* Catalog.handle_navigation, FAQ.handle_navigation, Cart.handle_navigation
\* from the point where state.get_value has given the engine inst: a copy
\* of the session's Paginator that shares its nodes.
handle_navigation(inst, action, uid, db_fails, rr) ==
    LET fresh == ~inst.present
        eng == IF fresh THEN NewPaginator ELSE inst
        t == IF fresh THEN EmptyTree ELSE Tree
        eng1 == Transition(t, eng, action, uid)
    IN  /\ action = "down" \/ uid = None
        /\ db_fails => NeedsFetch(t, IF fresh THEN eng ELSE eng1)
        /\ eng1.cursor <= MaxPages * PageSize(eng1.page)
        /\ last' = [action |-> action, uid |-> uid]
        /\ IF fresh /\ scene = "cart"
           THEN Dropped /\ round_trip' = NoTrip
           ELSE IF fresh /\ scene = "faq"
           THEN /\ \E r \in {show_page(t, eng, NoTerm, removed, db_fails, rr)} : Finish(eng, r)
                /\ round_trip' = NoTrip
           ELSE \E r \in {show_page(t, eng1, SceneSearch, removed, db_fails, rr)} :
                  /\ Finish(eng1, r)
                  /\ round_trip' =
                        IF fresh THEN NoTrip
                        ELSE IF action = "down" /\ eng1.page # eng.page /\ ~r.raised
                        THEN [step |-> "down", child |-> uid, cursor |-> eng.cursor]
                        ELSE IF action = "up" /\ round_trip.step = "down"
                        THEN [round_trip EXCEPT !.step = "up"]
                        ELSE NoTrip
        /\ UNCHANGED <<config, search_term, active_scene, flow>>

\* A navigation callback handled in one piece: no other event of the user
\* is in flight.
Navigate(action, uid, db_fails) ==
    /\ active_scene = scene
    /\ handle_navigation(paginator_inst, action, uid, db_fails, Delivered)
    /\ UNCHANGED <<inflight, storage, chat, aside>>

\* Mutant of ClearChildren: the children already loaded are kept.
KeepChildren(t, uid) == t

\* FAQPaginator.page.children = {}
ClearChildren(t, uid) == [t EXCEPT !.children[uid] = << >>]

\* The reset both FAQ search handlers apply to the engine they found: it
\* works on the engine's current node, whichever that is.
ResetSearch(term, db_fails) ==
    LET fresh == ~paginator_inst.present
        eng == IF fresh THEN NewPaginator ELSE paginator_inst
        t == IF fresh THEN EmptyTree ELSE Tree
        eng1 == [eng EXCEPT !.cursor = 0]
        t1 == ClearChildren(t, eng.page)
    IN  /\ scene = "faq"
        /\ active_scene = "faq"
        /\ db_fails => NeedsFetch(t1, eng1)
        /\ \E r \in {show_page(t1, eng1, term, removed, db_fails, Delivered)} :
              /\ Finish(eng1, r)
              /\ search_term' = IF r.raised THEN search_term ELSE term
        /\ round_trip' = NoTrip
        /\ UNCHANGED <<config, inflight, storage, chat, aside, active_scene, flow>>

\* FAQ.handle_search_query
Search(term, db_fails) ==
    /\ term \in SearchTerms
    /\ last' = [action |-> "search", uid |-> None]
    /\ ResetSearch(term, db_fails)

\* FAQ.remove_search_term
DeleteSearch(db_fails) ==
    /\ last' = [action |-> "delete_search", uid |-> None]
    /\ ResetSearch(NoTerm, db_fails)

(* ------------------------ the add-to-cart flow ------------------------ *)

\* The product the add-to-cart flow is followed for: the first product of
\* the first category.
Tracked == SubId(0, 1)

\* The "Add to cart" button of the session's page, when that page shows the
\* product followed.
Products ==
    IF paginator_inst.present /\ scene = "catalog" /\ paginator_inst.page = Tracked
    THEN {Tracked}
    ELSE {}

\* What get_product does: the product is returned, or ObjectDoesNotExist or
\* another database error is raised.
Lookups == {"found", "missing", "error"}

\* Mutant of ValidQuantity: the lower end of the range is 0.
ValidQuantityFromZero(q, stock) == 0 <= q /\ q <= stock

\* set_quantity: 0 < quantity <= product_in_stock
ValidQuantity(q, stock) == 0 < q /\ q <= stock

\* Catalog.add_to_cart: the scene is left and the FSM state becomes
\* ProductProcessing.set_quantity before the product is looked up; a failed
\* lookup goes back into the catalog.
AddToCart(product, lookup, db_fails) ==
    /\ active_scene = "catalog"
    /\ product \in Products
    /\ last' = [action |-> "add_to_cart", uid |-> product]
    /\ IF lookup = "found"
       THEN /\ active_scene' = "set_quantity"
            /\ product_processing' =
                   [present |-> TRUE, product_id |-> product, quantity |-> None]
            /\ view' = Message("quantity_prompt")
            /\ round_trip' = NoTrip
            /\ UNCHANGED <<page, cursor, children, parent, paginator_inst>>
       ELSE /\ active_scene' = "catalog"
            /\ on_enter(db_fails, FALSE)
            /\ UNCHANGED product_processing
    /\ UNCHANGED <<config, inflight, storage, chat, aside, search_term, removed>>

\* catalog.deny: the product in progress is dropped and the catalog entered.
Deny(db_fails) ==
    /\ active_scene \in ProductProcessing
    /\ last' = [action |-> "deny", uid |-> None]
    /\ product_processing' = NoProduct
    /\ active_scene' = "catalog"
    /\ on_enter(db_fails, FALSE)
    /\ UNCHANGED <<config, inflight, storage, chat, aside, search_term, removed>>

\* catalog.set_quantity on a text that starts with a digit: q is the number
\* typed, malformed a text int() refuses, stock the stock the database
\* holds at this turn.  No branch changes the FSM state.
SetQuantity(q, malformed, stock, lookup) ==
    /\ active_scene = "set_quantity"
    /\ malformed => q = 0 /\ lookup = "found"
    /\ (malformed \/ lookup # "found") => stock = 0
    /\ last' = [action |-> "set_quantity", uid |-> q, stock |-> stock]
    /\ IF malformed
       THEN view' = Message("invalid_format") /\ UNCHANGED product_processing
       ELSE IF ~product_processing.present \/ product_processing.product_id = None
       THEN view' = Message("error_notice") /\ UNCHANGED product_processing
       ELSE IF lookup = "missing"
       THEN view' = Message("product_not_found") /\ UNCHANGED product_processing
       ELSE IF lookup = "error"
       THEN view' = Message("raised") /\ UNCHANGED product_processing
       ELSE IF ~ValidQuantity(q, stock)
       THEN view' = Message("invalid_quantity") /\ UNCHANGED product_processing
       ELSE /\ product_processing' = [product_processing EXCEPT !.quantity = q]
            /\ view' = Message("confirm_prompt")
    /\ round_trip' = NoTrip
    /\ UNCHANGED <<config, inflight, storage, chat, aside, search_term, removed, active_scene,
                   page, cursor, children, parent, paginator_inst>>

\* Mutant of confirm: the product in progress stays in the session.
confirm_keeping(commit_fails, db_fails) ==
    LET pp == product_processing
        complete == pp.present /\ pp.product_id # None /\ pp.quantity # None
    IN  /\ scene = "catalog"
        /\ commit_fails => complete
        /\ last' = [action |-> "confirm", uid |-> pp.product_id,
                    added |-> IF complete /\ ~commit_fails THEN pp.quantity ELSE 0]
        /\ UNCHANGED product_processing
        /\ active_scene' = "catalog"
        /\ on_enter(db_fails, FALSE)
        /\ UNCHANGED <<config, inflight, storage, chat, search_term, removed>>

\* catalog.confirm, registered for the callback "confirm" in every FSM
\* state: with a product and a quantity in the session the quantity is
\* added to the user's cart line of the product (added, 0 when nothing is
\* written), and in every case the product in progress is dropped and the
\* catalog entered.
confirm(commit_fails, db_fails) ==
    LET pp == product_processing
        complete == pp.present /\ pp.product_id # None /\ pp.quantity # None
    IN  /\ scene = "catalog"
        /\ commit_fails => complete
        /\ last' = [action |-> "confirm", uid |-> pp.product_id,
                    added |-> IF complete /\ ~commit_fails THEN pp.quantity ELSE 0]
        /\ product_processing' = NoProduct
        /\ active_scene' = "catalog"
        /\ on_enter(db_fails, FALSE)
        /\ UNCHANGED <<config, inflight, storage, chat, search_term, removed>>

\* catalog.confirm where the cart line is not followed.
Confirm(commit_fails, db_fails) ==
    /\ confirm(commit_fails, db_fails)
    /\ UNCHANGED aside

\* add_product_to_user_cart on the line followed: get_or_create makes the
\* line with the quantity, or the quantity is added to the line there is.
add_product_to_user_cart(line, quantity) ==
    IF line.quantity = 0
    THEN [line EXCEPT !.quantity = quantity]
    ELSE [line EXCEPT !.quantity = @ + quantity]

\* catalog.confirm with the cart line it writes; the line is followed up to
\* MaxLine units.
ConfirmLine(commit_fails, db_fails) ==
    /\ confirm(commit_fails, db_fails)
    /\ \E written \in {IF last'.added > 0
                        THEN add_product_to_user_cart(cart_item, last'.added)
                        ELSE cart_item} :
          /\ written.quantity <= MaxLine
          /\ cart_item' = [written EXCEPT
                              !.repeated = last.action = "confirm" /\ last.added > 0]
    /\ UNCHANGED <<listing, delivery>>

(* ------------------------------ the cart ------------------------------ *)

\* The cart lines whose "remove" button the session's page shows, and a
\* line the database does not hold.
Lines ==
    (IF paginator_inst.present /\ scene = "cart" /\ paginator_inst.page # Root
     THEN {paginator_inst.page} ELSE {}) \cup {Bogus}

\* _delete_cart_item: the lines deleted so far and now.
Deleted(item, delete_fails) ==
    IF delete_fails \/ item = Bogus THEN removed ELSE removed \cup {item}

\* Mutant of InvalidatedEngine: the engine of the session is kept.
KeptEngine(inst) == inst

\* Cart.delete_item_from_cart: state.update_data(cart_paginator_inst=None)
InvalidatedEngine(inst) == NoPaginator

\* Cart.delete_item_from_cart: the engine of the session is dropped, the line
\* deleted (a failing delete is logged only) and the scene entered again, so
\* that Cart.on_enter works on the database as the delete left it.
DeleteItem(item, delete_fails, total_fails, db_fails) ==
    /\ active_scene = "cart"
    /\ item \in Lines
    /\ last' = [action |-> "delete", uid |-> item]
    /\ removed' = Deleted(item, delete_fails)
    /\ UNCHANGED <<config, inflight, storage, chat, aside, search_term, active_scene, product_processing>>
    /\ round_trip' = NoTrip
    /\ \E inst \in {InvalidatedEngine(paginator_inst)} :
       \E eng \in {IF inst.present THEN inst ELSE NewPaginator} :
       \E t \in {IF inst.present THEN Tree ELSE EmptyTree} :
          IF total_fails
          THEN /\ ~db_fails
               /\ view' = NoView
               /\ paginator_inst' = inst
               /\ UNCHANGED <<page, cursor, children, parent>>
          ELSE \E r \in {show_page(t, eng, NoTerm, Deleted(item, delete_fails), db_fails, Delivered)} :
                 /\ db_fails => NeedsFetch(t, eng)
                 /\ page' = eng.page
                 /\ cursor' = eng.cursor
                 /\ children' = r.tree.children
                 /\ parent' = r.tree.parent
                 /\ view' = Rendered(r)
                 /\ paginator_inst' = IF r.raised THEN inst ELSE eng

\* Cart.gathering_information ("process_offer"): the invoice is sent, or the
\* failure to send it logged, and wizard.exit() leaves the scene with no FSM
\* state set.
ProcessOffer(sent) ==
    /\ active_scene = "cart"
    /\ last' = [action |-> "process_offer", uid |-> None]
    /\ active_scene' = "none"
    /\ view' = IF sent THEN Message("invoice") ELSE NoView
    /\ round_trip' = NoTrip
    /\ UNCHANGED <<config, inflight, storage, chat, aside, search_term, flow,
                   page, cursor, children, parent, paginator_inst>>

\* The uids a `down` callback can carry: those of the buttons of any page of
\* the node the session is at, a uid that names no child, and no uid.
Uids ==
    Range(children[paginator_inst.page]) \cup {Bogus, None}

(* --------------------------- several users ---------------------------- *)

Users == 1 .. MaxUsers
NoUser == 0

\* The scenes the users are followed through.
UserScenes == {"catalog", "faq"}

\* The order in which SceneRegistry holds them.
SceneIndex(sc) == IF sc = "catalog" THEN 1 ELSE 2

\* The root PageNode objects: one for every user and scene.
Objects == 1 .. 2 * MaxUsers
NoObject == 0

\* Mutant of NewRoot: one root node object serves every engine.
SharedRoot(u, sc) == 1

\* root = PageNode(uid=..., content=...) in on_enter and in the fallback of
\* handle_navigation: a new object at every call, with a children dict of
\* its own (default_factory), so a root no other user and no other scene
\* holds.
NewRoot(u, sc) == 2 * (u - 1) + SceneIndex(sc)

\* What the FSM data of a user holds under "<scene>_paginator_inst": the
\* Paginator and, through its page, the tree of the root object.
NoSession == [inst |-> NoPaginator, root |-> NoObject]

\* FSMContextMiddleware resolves the storage key and the FSM state of the
\* user the update comes from, and the update reaches the handlers of scene
\* sc: those of the user's scene, the scene a main menu button goes to, or
\* the catalog's "confirm", which is handled in every state.
Dispatch(u, sc) ==
    /\ states[u] \in {sc, "main_menu"} \/ sc = "catalog"
    /\ user' = u
    /\ scene' = sc
    /\ UNCHANGED <<db, page_config, labels, inflight, chat, aside, states, sessions, heap, children,
                   parent, page, cursor, paginator_inst, search_term, view, last,
                   round_trip, active_scene, flow>>

\* What the turns on the storage leave alone: the session followed alone.
alone == <<db, page_config, labels, inflight, chat, aside, user, scene, children, parent, page, cursor,
           paginator_inst, search_term, view, last, round_trip, active_scene, flow>>

\* The positions a user's engine is followed to: any node, and the second
\* page of the root.
Followed(eng) == eng.cursor = 0 \/ (eng.page = Root /\ eng.cursor <= PageSize(Root))

\* Catalog.on_enter, FAQ.on_enter on the session of the user, with a
\* database that answers.
UserOnEnter ==
    LET s == sessions[user][scene]
        fresh == ~s.inst.present
        root == IF fresh THEN NewRoot(user, scene) ELSE s.root
        eng == IF fresh THEN NewPaginator ELSE s.inst
        t == IF fresh THEN EmptyTree ELSE heap[root]
        r == show_page(t, eng, NoTerm, {}, FALSE, Delivered)
    IN  /\ states' = [states EXCEPT ![user] = scene]
        /\ heap' = [heap EXCEPT ![root] = r.tree]
        /\ sessions' = [sessions EXCEPT ![user][scene] = [inst |-> eng, root |-> root]]

\* MainMenu's goto handlers for the user.
UserEnter ==
    /\ user \in Users
    /\ states[user] = "main_menu"
    /\ UserOnEnter
    /\ UNCHANGED alone

\* catalog.confirm for the user: whatever scene the user is in, it is left
\* with its data kept, and the catalog is entered.
UserConfirm ==
    /\ user \in Users
    /\ scene = "catalog"
    /\ states[user] # "main_menu"
    /\ UserOnEnter
    /\ UNCHANGED alone

\* Catalog.handle_navigation, FAQ.handle_navigation for the user, with a
\* database that answers.
UserNavigate(action, uid) ==
    LET s == sessions[user][scene]
        fresh == ~s.inst.present
        root == IF fresh THEN NewRoot(user, scene) ELSE s.root
        eng == IF fresh THEN NewPaginator ELSE s.inst
        t == IF fresh THEN EmptyTree ELSE heap[root]
        eng1 == IF fresh /\ scene = "faq" THEN eng ELSE Transition(t, eng, action, uid)
        r == show_page(t, eng1, NoTerm, {}, FALSE, Delivered)
    IN  /\ user \in Users
        /\ states[user] = scene
        /\ action = "down" \/ uid = None
        /\ uid \in Range(t.children[eng.page]) \cup {Bogus, None}
        /\ Followed(eng1)
        /\ heap' = [heap EXCEPT ![root] = r.tree]
        /\ sessions' = [sessions EXCEPT ![user][scene] = [inst |-> eng1, root |-> root]]
        /\ UNCHANGED <<alone, states>>

\* private.start_menu for the user: state.clear() drops the user's FSM
\* state and data, and with the data the trees only its engines hold.
UserMenu ==
    /\ user \in Users
    /\ states[user] # "main_menu"
    /\ states' = [states EXCEPT ![user] = "main_menu"]
    /\ sessions' = [sessions EXCEPT ![user] = [sc \in UserScenes |-> NoSession]]
    /\ heap' = [o \in Objects |->
                   IF \E sc \in UserScenes : sessions[user][sc].root = o
                   THEN EmptyTree ELSE heap[o]]
    /\ UNCHANGED alone

(* ------------------------- overlapping events ------------------------- *)

\* The updates of one user that polling has handed to the dispatcher as
\* tasks of their own (handle_as_tasks).
Events == 1 .. MaxEvents
NoEvent == 0

Idle == [pc |-> "idle", inst |-> NoPaginator, action |-> "none", uid |-> None]

\* The buttons pressed while another event is in flight: the page controls.
Taps == {"next", "prev"}

\* Mutant of LockFree: no event isolation, a turn never waits.
LockIgnored(holder) == TRUE

\* SimpleEventIsolation.lock: the asyncio.Lock of the user's FSM key is
\* taken when no turn of that key holds it.
LockFree(holder) == holder = NoEvent

\* A navigation button is pressed: the update becomes a task that waits
\* for the lock of the user's key.
Arrive(e, action, uid) ==
    /\ active_scene = scene
    /\ turns[e].pc = "idle"
    /\ action = "down" \/ uid = None
    /\ turns' = [turns EXCEPT ![e] = [pc |-> "waiting", inst |-> NoPaginator,
                                      action |-> action, uid |-> uid]]
    /\ UNCHANGED <<config, storage, chat, aside, lock, children, parent, page, cursor,
                   paginator_inst, search_term, view, last, round_trip,
                   active_scene, flow>>

\* FSMContextMiddleware takes the lock and calls the handler, which reads
\* the engine from the session.
Begin(e) ==
    /\ turns[e].pc = "waiting"
    /\ LockFree(lock)
    /\ lock' = e
    /\ turns' = [turns EXCEPT ![e].pc = "running", ![e].inst = paginator_inst]
    /\ UNCHANGED <<config, storage, chat, aside, children, parent, page, cursor,
                   paginator_inst, search_term, view, last, round_trip,
                   active_scene, flow>>

\* The handler runs the transition on the engine it read, renders, writes
\* the engine to the session and returns; the lock is released.
End(e, db_fails) ==
    /\ turns[e].pc = "running"
    /\ handle_navigation(turns[e].inst, turns[e].action, turns[e].uid, db_fails, Delivered)
    /\ lock' = IF lock = e THEN NoEvent ELSE lock
    /\ turns' = [turns EXCEPT ![e] = Idle]
    /\ UNCHANGED <<storage, chat, aside>>

(* ----------------------------- attachment ----------------------------- *)

\* The uids add_children is given for the root: those of the database
\* rows.
Attachable == 1 .. MaxRootItems

\* The sequences of at most n elements of S.
SeqsUpTo(S, n) == UNION {[1 .. k -> S] : k \in 0 .. n}

\* root.add_children(data) on the tree of the session, the nodes of data
\* being new objects with no children.
AddChildren(data) ==
    /\ children' = add_children(Tree, Root, data).children
    /\ parent' = add_children(Tree, Root, data).parent
    /\ last' = [action |-> "add_children", uid |-> Root, data |-> data]
    /\ UNCHANGED <<config, inflight, storage, chat, aside, page, cursor, paginator_inst,
                   search_term, view, round_trip, active_scene, flow>>

(* --------------------------- catalog loader --------------------------- *)

\* The rows of a category, each an ORM object of its kind, in the order
\* of its queryset.
Rows(kind, n) == [i \in 1 .. n |-> [kind |-> kind, id |-> i]]

\* Mutant of product_cursor_offset: the cursor is used as it is.
product_cursor_offset_raw(at, num_subcategories) == at

\* product_cursor_offset of _fetch_data_from_db_sync
product_cursor_offset(at, num_subcategories) == Max(0, at - num_subcategories)

\* catalog_loader_function for the uid of a category with S subcategories
\* and P products: limit + 1 rows are queried, subcategories first, and the
\* extra row only tells has_more.
catalog_loader_function(S, P, limit, at) ==
    LET effective_limit == limit + 1
        subcats == IF at < S
                   THEN Slice(Rows("category", S), at,
                              at + Min(effective_limit, S - at))
                   ELSE << >>
        remaining == effective_limit - Len(subcats)
        offset == product_cursor_offset(at, S)
        products == IF remaining > 0
                    THEN Slice(Rows("product", P), offset, offset + remaining)
                    ELSE << >>
        items == subcats \o products
    IN  IF Len(items) = effective_limit
        THEN [data |-> SubSeq(items, 1, Len(items) - 1), has_more |-> TRUE]
        ELSE [data |-> items, has_more |-> FALSE]

\* No call.
NoCall == [offset |-> None, data |-> << >>, has_more |-> FALSE]

\* No category is followed.
NoFetch == [S |-> 0, P |-> 0, limit |-> 1, got |-> << >>, more |-> TRUE, last |-> NoCall]

\* The frame of a loader call made on its own.
conversation == <<config, inflight, storage, chat, children, parent, page, cursor,
                  paginator_inst, search_term, view, last, round_trip, active_scene, flow>>

\* The call _load_data makes: the offset is the number of children known,
\* and the nodes returned become children.
LoadMore ==
    /\ Len(listing.got) <= listing.S + listing.P
    /\ \E r \in {catalog_loader_function(listing.S, listing.P, listing.limit, Len(listing.got))} :
          listing' = [listing EXCEPT !.got = @ \o r.data, !.more = r.has_more,
                                 !.last = [offset |-> Len(listing.got), data |-> r.data,
                                           has_more |-> r.has_more]]
    /\ UNCHANGED <<conversation, cart_item, delivery>>

\* A call with any offset.
LoadAt(at) ==
    /\ \E r \in {catalog_loader_function(listing.S, listing.P, listing.limit, at)} :
          listing' = [listing EXCEPT !.last = [offset |-> at, data |-> r.data,
                                           has_more |-> r.has_more]]
    /\ UNCHANGED <<conversation, cart_item, delivery>>

(* --------------------------- delivery task ---------------------------- *)

\* What send_telegram_message_via_aiogram does for the task: it returns
\* True, returns False, or raises.
Outcomes == {"True", "False", "raises"}

\* Task.retry(exc=...) called in a worker for a request with the given
\* retries count: past max_retries it raises exc; otherwise it puts a task
\* message with retries + 1 into the queue and raises Retry.  Either way an
\* Exception leaves the call.
retry(retries) ==
    IF retries + 1 > MaxRetries
    THEN [scheduled |-> 0, raises |-> "exc"]
    ELSE [scheduled |-> 1, raises |-> "Retry"]

\* The body of send_single_telegram_message_task for a request with the
\* given retries count: the number of task messages it puts into the queue.
\* The retry of the False branch is raised inside the try block, so the
\* handler for Exception catches what it raises and calls retry once more.
send_single_telegram_message_task(retries, outcome) ==
    CASE outcome = "True" -> 0
      [] outcome = "False" -> retry(retries).scheduled + retry(retries).scheduled
      [] outcome = "raises" -> retry(retries).scheduled

\* broadcast: the task of one message is put into the queue.
Publish ==
    /\ delivery = NoDelivery
    /\ delivery' = [delivery EXCEPT !.pending[0] = 1]
    /\ UNCHANGED <<conversation, listing, cart_item>>

\* A worker takes a task message with retries count r from the queue and
\* runs the task body; the sender is called once.
RunTask(r, outcome) ==
    /\ delivery.pending[r] > 0
    /\ \E n \in {send_single_telegram_message_task(r, outcome)} :
          delivery' =
              [pending |-> [q \in Retries |->
                               delivery.pending[q] - (IF q = r THEN 1 ELSE 0)
                                                   + (IF q = r + 1 THEN n ELSE 0)],
               attempts |-> delivery.attempts + 1,
               sent |-> delivery.sent \/ outcome = "True",
               ran |-> [retries |-> r, outcome |-> outcome, scheduled |-> n]]
    /\ UNCHANGED <<conversation, listing, cart_item>>

(* --------------------------- rendered turns --------------------------- *)

\* The calls a render does not make get no answer: an edit is attempted
\* only when the kinds agree, a delete only when they differ, and a send
\* only after a delete or after an edit error that triggers the resend.
Answered(old, image, api) ==
    LET mismatch == image # (old = "photo")
    IN  /\ mismatch => api.edit = "ok"
        /\ ~mismatch => api.delete = "ok"
        /\ (~mismatch /\ api.edit \notin {"cant_be_edited", "not_found"}) => api.send = "ok"
        /\ (mismatch /\ api.delete = "api_error") => api.send = "ok"

\* Catalog.handle_navigation on a button of a message of kind old, with
\* the platform's answers api to the renderer's calls; only a product page
\* carries an image.  The database answers.
RenderedNavigate(action, uid, old, image, api) ==
    LET eng == IF paginator_inst.present THEN paginator_inst ELSE NewPaginator
        t == IF paginator_inst.present THEN Tree ELSE EmptyTree
        target == Transition(t, eng, action, uid)
        rr == send_or_edit_message("callback", old, image, api)
    IN  /\ active_scene = scene
        /\ Answered(old, image, api)
        /\ image => is_leaf_node(target.page)
        /\ handle_navigation(paginator_inst, action, uid, FALSE, rr)
        /\ chat' = [event |-> "callback", old |-> old, image |-> image, api |-> api,
                    shown |-> rr.shown, raised |-> rr.raised]
        /\ UNCHANGED <<inflight, storage, aside>>

(* --------------------------- specifications --------------------------- *)

\* The conversation before its first turn.
Session ==
    /\ children = EmptyTree.children
    /\ parent = EmptyTree.parent
    /\ page = Root
    /\ cursor = 0
    /\ paginator_inst = NoPaginator
    /\ search_term = NoTerm
    /\ view = NoView
    /\ last = [action |-> "start", uid |-> None]
    /\ round_trip = NoTrip
    /\ active_scene \in {"none", scene}
    /\ product_processing = NoProduct
    /\ removed = {}
    /\ lock = NoEvent
    /\ turns = [e \in Events |-> Idle]
    /\ user = NoUser
    /\ states = [u \in Users |-> "main_menu"]
    /\ sessions = [u \in Users |-> [sc \in UserScenes |-> NoSession]]
    /\ heap = [o \in Objects |-> EmptyTree]
    /\ chat = NoChat
    /\ labels = ItemNames

Start ==
    /\ Session
    /\ listing = NoFetch
    /\ cart_item = NoLine
    /\ delivery = NoDelivery

\* Any scene over any number of root entries and any root page size; the
\* entries below the root are none or MaxSubItems each, shown with a page
\* size of 1 or MaxPageSize.
Init ==
    /\ scene \in Scenes
    /\ db \in [root : 0 .. MaxRootItems, sub : {0, MaxSubItems}]
    /\ db.sub > 0 => scene = "catalog"
    /\ page_config \in [root : 1 .. MaxPageSize, item : {1, MaxPageSize}]
    /\ Start

\* Scenario A: a root of ScenarioAItems entries, default page size, in a scene
\* whose loader reports a database failure as an empty batch.
InitA ==
    /\ scene \in {"catalog", "faq"}
    /\ db = [root |-> ScenarioAItems, sub |-> IF scene = "catalog" THEN MaxSubItems ELSE 0]
    /\ page_config = [root |-> DefaultPageSize, item |-> DefaultPageSize]
    /\ Start

Next ==
    \/ Menu
    \/ \E db_fails \in BOOLEAN, total_fails \in BOOLEAN : Enter(db_fails, total_fails)
    \/ \E action \in Actions, uid \in Uids, db_fails \in BOOLEAN :
           Navigate(action, uid, db_fails)
    \/ \E term \in SearchTerms, db_fails \in BOOLEAN : Search(term, db_fails)
    \/ \E db_fails \in BOOLEAN : DeleteSearch(db_fails)
    \/ \E product \in Nodes, lookup \in Lookups, db_fails \in BOOLEAN :
           AddToCart(product, lookup, db_fails)
    \/ \E db_fails \in BOOLEAN : Deny(db_fails)
    \/ \E q \in 0 .. MaxStock + 1, malformed \in BOOLEAN, stock \in 0 .. MaxStock,
          lookup \in Lookups : SetQuantity(q, malformed, stock, lookup)
    \/ \E commit_fails \in BOOLEAN, db_fails \in BOOLEAN : Confirm(commit_fails, db_fails)
    \/ \E item \in Nodes, delete_fails \in BOOLEAN, total_fails \in BOOLEAN,
          db_fails \in BOOLEAN : DeleteItem(item, delete_fails, total_fails, db_fails)
    \/ \E sent \in BOOLEAN : ProcessOffer(sent)

Spec == Init /\ [][Next]_vars

\* Scenario A has no cart, so the cart's own actions are left out.
NextA ==
    \/ Menu
    \/ \E db_fails \in BOOLEAN, total_fails \in BOOLEAN : Enter(db_fails, total_fails)
    \/ \E action \in Actions, uid \in Uids, db_fails \in BOOLEAN :
           Navigate(action, uid, db_fails)
    \/ \E term \in SearchTerms, db_fails \in BOOLEAN : Search(term, db_fails)
    \/ \E db_fails \in BOOLEAN : DeleteSearch(db_fails)
    \/ \E product \in Nodes, lookup \in Lookups, db_fails \in BOOLEAN :
           AddToCart(product, lookup, db_fails)
    \/ \E db_fails \in BOOLEAN : Deny(db_fails)
    \/ \E q \in 0 .. MaxStock + 1, malformed \in BOOLEAN, stock \in 0 .. MaxStock,
          lookup \in Lookups : SetQuantity(q, malformed, stock, lookup)
    \/ \E commit_fails \in BOOLEAN, db_fails \in BOOLEAN : Confirm(commit_fails, db_fails)

SpecA == InitA /\ [][NextA]_vars

\* Overlapping navigation events of one user in the catalog.
InitC ==
    /\ scene = "catalog"
    /\ db = [root |-> 2, sub |-> 1]
    /\ page_config = [root |-> 1, item |-> 1]
    /\ Start
    /\ active_scene = scene

NextC ==
    \/ \E e \in Events, action \in Taps : Arrive(e, action, None)
    \/ \E e \in Events : Begin(e)
    \/ \E e \in Events, db_fails \in BOOLEAN : End(e, db_fails)

SpecC == InitC /\ [][NextC]_vars

\* The sessions of several users, each in a scene of their own choice.
InitU ==
    /\ scene = "catalog"
    /\ db = [root |-> 1, sub |-> 1]
    /\ page_config = [root |-> 1, item |-> 1]
    /\ Start
    /\ active_scene = "none"

NextU ==
    \/ \E u \in Users, sc \in UserScenes : Dispatch(u, sc)
    \/ UserEnter
    \/ UserConfirm
    \/ \E action \in Actions, uid \in Nodes \cup {None} : UserNavigate(action, uid)
    \/ UserMenu

SpecU == InitU /\ [][NextU]_vars

\* The catalog, entered from the main menu, with a platform that may reject
\* the renderer's calls of a navigation turn.
InitR ==
    /\ scene = "catalog"
    /\ db = [root |-> 1, sub |-> 1]
    /\ page_config = [root |-> 1, item |-> 1]
    /\ Start
    /\ active_scene = "none"

NextR ==
    \/ Menu
    \/ Enter(FALSE, FALSE)
    \/ \E action \in Actions, uid \in Range(children[page]) \cup {None},
          old \in {"text", "photo"}, image \in BOOLEAN :
           \E api \in {a \in Apis : Answered(old, image, a)} :
               RenderedNavigate(action, uid, old, image, api)

SpecR == InitR /\ [][NextR]_vars

\* The library on its own: a Paginator constructed on a root that already
\* holds its first known children, with or without a content source, and
\* with rows whose names may coincide.
InitL ==
    /\ scene = "catalog"
    /\ db = [root |-> MaxRootItems, sub |-> MaxSubItems]
    /\ page_config \in [root : 1 .. MaxPageSize, item : 1 .. MaxPageSize]
    /\ labels \in Labelings
    /\ \E known \in 0 .. db.root, source \in BOOLEAN :
          /\ children = [EmptyTree.children EXCEPT ![Root] = SeqTo(known)]
          /\ parent = [n \in Nodes |-> IF n \in 1 .. known THEN Root ELSE None]
          /\ paginator_inst = [NewPaginator EXCEPT !.loader_func = source]
    /\ page = Root
    /\ cursor = 0
    /\ search_term = NoTerm
    /\ view = NoView
    /\ last = [action |-> "start", uid |-> None]
    /\ round_trip = NoTrip
    /\ active_scene = scene
    /\ product_processing = NoProduct
    /\ removed = {}
    /\ lock = NoEvent
    /\ turns = [e \in Events |-> Idle]
    /\ user = NoUser
    /\ states = [u \in Users |-> "main_menu"]
    /\ sessions = [u \in Users |-> [sc \in UserScenes |-> NoSession]]
    /\ heap = [o \in Objects |-> EmptyTree]
    /\ chat = NoChat
    /\ listing = NoFetch
    /\ cart_item = NoLine
    /\ delivery = NoDelivery

NextL ==
    \E action \in Actions, uid \in Range(children[paginator_inst.page]) \cup {Bogus, None} :
        Navigate(action, uid, FALSE)

SpecL == InitL /\ [][NextL]_vars

\* PageNode on its own: the root of a catalog engine is given children,
\* and the first category is descended into, which loads its products.
InitN ==
    /\ InitL
    /\ labels = ItemNames
    /\ page_config = [root |-> 1, item |-> 1]
    /\ paginator_inst.loader_func
    /\ children[Root] = << >>

NextN ==
    \/ \E data \in SeqsUpTo(Attachable, MaxPageSize) : AddChildren(data)
    \/ Navigate("down", 1, FALSE)
    \/ Navigate("up", None, FALSE)

SpecN == InitN /\ [][NextN]_vars

\* The catalog loader on its own, for a category of any content.
InitG ==
    /\ scene = "catalog"
    /\ db = [root |-> MaxRootItems, sub |-> MaxSubItems]
    /\ page_config = [root |-> 1, item |-> 1]
    /\ Session
    /\ active_scene = scene
    /\ \E S \in 0 .. MaxRootItems, P \in 0 .. MaxRootItems, limit \in 1 .. MaxPageSize :
          listing = [NoFetch EXCEPT !.S = S, !.P = P, !.limit = limit]
    /\ cart_item = NoLine
    /\ delivery = NoDelivery

NextG ==
    \/ LoadMore
    \/ \E at \in 0 .. (listing.S + listing.P + 1) : LoadAt(at)

SpecG == InitG /\ [][NextG]_vars

\* The add-to-cart flow of one user for one product whose stock stays as it
\* is, with the user's cart line of that product.
InitK ==
    /\ scene = "catalog"
    /\ db = [root |-> 1, sub |-> 1]
    /\ page_config = [root |-> 1, item |-> 1]
    /\ Session
    /\ active_scene = "none"
    /\ listing = NoFetch
    /\ \E stock \in 0 .. MaxStock : cart_item = [NoLine EXCEPT !.stock = stock]
    /\ delivery = NoDelivery

NextK ==
    \/ Menu
    \/ Enter(FALSE, FALSE)
    \/ \E action \in Actions, uid \in Range(children[page]) \cup {None} :
           Navigate(action, uid, FALSE)
    \/ \E product \in Nodes, lookup \in Lookups : AddToCart(product, lookup, FALSE)
    \/ Deny(FALSE)
    \/ \E q \in 0 .. MaxStock + 1, malformed \in BOOLEAN, stock \in {0, cart_item.stock},
          lookup \in Lookups : SetQuantity(q, malformed, stock, lookup)
    \/ \E commit_fails \in BOOLEAN : ConfirmLine(commit_fails, FALSE)

SpecK == InitK /\ [][NextK]_vars

\* The delivery of one broadcast message by send_single_telegram_message_task.
InitT ==
    /\ scene = "catalog"
    /\ db = [root |-> MaxRootItems, sub |-> MaxSubItems]
    /\ page_config = [root |-> 1, item |-> 1]
    /\ Session
    /\ active_scene = "none"
    /\ listing = NoFetch
    /\ cart_item = NoLine
    /\ delivery = NoDelivery

NextT ==
    \/ Publish
    \/ \E r \in Retries, outcome \in Outcomes : RunTask(r, outcome)

SpecT == InitT /\ [][NextT]_vars

(* ------------------------------- claims ------------------------------- *)

\* The uids of the child buttons on the screen, in order.
Shown ==
    LET downs == SelectSeq(view.kbd, LAMBDA b : b.action = "down")
    IN  [i \in 1 .. Len(downs) |-> downs[i].uid]

\* A control of the given action is on the screen.
Offers(action) == \E i \in 1 .. Len(view.kbd) : view.kbd[i].action = action

\* The engine a navigation turn starts from.
Stored == paginator_inst

\* C1 (Scenario A): on the root, with all ScenarioAItems children known
\* before the render and the default page size, a page at cursor c shows the children
\* c .. c+4 (as far as they exist), offers 'next' exactly while children lie
\* beyond the window, 'prev' exactly when c > 0 and never 'up'; and `next`
\* from cursor 0 and from cursor 5 moves the cursor on by 5.
ScenarioAPage ==
    (/\ view.outcome = "rendered"
     /\ page = Root
     /\ Len(children[Root]) = ScenarioAItems
     /\ \A i \in 1 .. Len(view.calls) : view.calls[i].offset = ScenarioAItems
     /\ cursor <= 2 * DefaultPageSize)
    => /\ Shown = Slice(SeqTo(ScenarioAItems), cursor, cursor + DefaultPageSize)
       /\ Offers("next") <=> (cursor + DefaultPageSize < ScenarioAItems)
       /\ Offers("prev") <=> (cursor > 0)
       /\ ~Offers("up")
       /\ (cursor = 2 * DefaultPageSize => ~view.has_more)

ScenarioANext ==
    (/\ Stored.present
     /\ Stored.page = Root
     /\ Len(children[Root]) = ScenarioAItems
     /\ Stored.cursor < 2 * DefaultPageSize
     /\ last'.action = "next")
    => /\ cursor' = Stored.cursor + DefaultPageSize
       /\ page' = Root
       /\ paginator_inst'.cursor = cursor'
       /\ view'.outcome = "rendered"

ScenarioA == []ScenarioAPage /\ [][ScenarioANext]_vars

ScenarioAWitness ==
    /\ last.action = "next"
    /\ page = Root
    /\ cursor = 2 * DefaultPageSize
    /\ Len(children[Root]) = ScenarioAItems
    /\ view.outcome = "rendered"
    /\ view.calls = <<[uid |-> Root, limit |-> DefaultPageSize, offset |-> ScenarioAItems]>>
    /\ Shown = <<2 * DefaultPageSize + 1, ScenarioAItems>>
    /\ Offers("prev")
    /\ ~Offers("next")

\* C2: the cursor of the engine, in memory and in the session, is never
\* negative and is a multiple of the page size of the engine's current node.
CursorAligned ==
    /\ cursor >= 0
    /\ cursor % PageSize(page) = 0
    /\ paginator_inst.cursor >= 0
    /\ paginator_inst.cursor % PageSize(paginator_inst.page) = 0

CursorAlignedWitness ==
    /\ last.action = "up"
    /\ cursor > 0
    /\ PageSize(page) > 1
    /\ paginator_inst.cursor = cursor
    /\ search_term # NoTerm

\* C3 (as claimed): a `next` taken when the last render of the stored
\* position reported has_more = false and no known child lies at or beyond
\* cursor + page size leaves the cursor unchanged.
NextStopsAtEnd ==
    [][(/\ Stored.present
        /\ view.outcome = "rendered"
        /\ ~view.has_more
        /\ page = Stored.page
        /\ cursor = Stored.cursor
        /\ Len(children[page]) <= cursor + PageSize(page)
        /\ last'.action = "next")
       => cursor' = cursor]_vars

\* C4: `up` from a child at index i of its parent's children moves the
\* engine to the parent with cursor (i div page size) * page size, a page
\* whose window holds i; the page rendered shows the child's button.
UpRestoresPage ==
    [][(/\ Stored.present
        /\ parent[Stored.page] # None
        /\ last'.action = "up")
       => LET c == Stored.page
              p == parent[c]
              i == IndexOf(children[p], c)
          IN  /\ i >= 0
              /\ page' = p
              /\ cursor' = (i \div PageSize(p)) * PageSize(p)
              /\ cursor' <= i
              /\ i < cursor' + PageSize(p)
              /\ view'.outcome = "rendered" => c \in Range(Shown')]_vars

UpRestoresPageWitness ==
    /\ last.action = "up"
    /\ round_trip.step = "up"
    /\ round_trip.cursor # cursor
    /\ cursor > 0
    /\ page_config.item # page_config.root
    /\ round_trip.child \in Range(Shown)

\* C5: after `down` into a known child C and the `up` that follows it, the
\* engine is at the node it started from, on the page whose window holds C,
\* and C's button is shown; if C was in the window before the `down`, the
\* cursor is the one before the `down`.
DownUpRoundTrip ==
    round_trip.step = "up"
    => LET c == round_trip.child
           p == parent[c]
           i == IndexOf(children[p], c)
       IN  /\ page = p
           /\ cursor <= i
           /\ i < cursor + PageSize(p)
           /\ view.outcome = "rendered" => c \in Range(Shown)
           /\ (round_trip.cursor <= i /\ i < round_trip.cursor + PageSize(p))
                 => cursor = round_trip.cursor

DownUpRoundTripWitness ==
    /\ round_trip.step = "up"
    /\ round_trip.cursor > 0
    /\ cursor = round_trip.cursor
    /\ view.outcome = "rendered"

\* C6: `prev` keeps the node and moves the cursor back by one page size, but
\* not below 0; at cursor 0 it changes neither the cursor nor the node.
PrevFloorsAtZero ==
    [][(Stored.present /\ last'.action = "prev")
       => /\ page' = Stored.page
          /\ cursor' >= 0
          /\ cursor' = Max(0, Stored.cursor - PageSize(Stored.page))
          /\ Stored.cursor = 0 => cursor' = 0
          /\ view'.outcome = "rendered"
                => (paginator_inst'.cursor = cursor' /\ paginator_inst'.page = page')]_vars

PrevFloorsAtZeroWitness ==
    /\ last.action = "prev"
    /\ cursor = 0
    /\ page # Root
    /\ view.outcome = "rendered"
    /\ paginator_inst.cursor = 0

\* C7: a turn that renders a leaf node makes no call of the content source,
\* and no call ever names a leaf.
LeafNeverLoads ==
    /\ is_leaf_node(page) => view.calls = << >>
    /\ \A i \in 1 .. Len(view.calls) : ~is_leaf_node(view.calls[i].uid)

LeafNeverLoadsWitness ==
    /\ is_leaf_node(page)
    /\ view.outcome = "rendered"
    /\ cursor > 0
    /\ paginator_inst.loader_func
    /\ last.action = "next"

\* C8: a `down` whose uid is missing or names no known child of the current
\* node leaves the node and the cursor as they were, and the turn renders
\* (it ends otherwise only if the content source raised in that render).
DownUnknownIsNoOp ==
    [][(/\ Stored.present
        /\ last'.action = "down"
        /\ (last'.uid = None \/ last'.uid \notin Range(children[Stored.page])))
       => /\ page' = Stored.page
          /\ cursor' = Stored.cursor
          /\ paginator_inst'.page = Stored.page
          /\ paginator_inst'.cursor = Stored.cursor
          /\ \/ view'.outcome = "rendered"
             \/ view'.outcome = "raised" /\ view'.calls # << >>]_vars

DownUnknownIsNoOpWitness ==
    /\ last.action = "down"
    /\ last.uid = Bogus
    /\ cursor > 0
    /\ children[page] # << >>
    /\ view.outcome = "rendered"

\* C9 (as claimed): a `down` to a uid that names no child ends the turn with
\* an error outcome, not with the outcome of an ordinary render.
DownUnknownFaults ==
    [][(/\ Stored.present
        /\ last'.action = "down"
        /\ last'.uid # None
        /\ last'.uid \notin Range(children[Stored.page]))
       => view'.outcome \notin {"rendered", "none"}]_vars

\* C10 (as claimed): when the content source raises in the render of a
\* `next`, the engine's cursor and node, in memory and in the session, are
\* those before the action and no child was attached.
NextFailureKeepsPosition ==
    [][(/\ Stored.present
        /\ last'.action = "next"
        /\ view'.outcome = "raised")
       => /\ cursor' = Stored.cursor
          /\ page' = Stored.page
          /\ paginator_inst' = paginator_inst
          /\ children' = children]_vars

\* C11: when the database query of a scene's content source raises during a
\* turn, the turn ends with a retry notice (not with a rendered page and not
\* silently) and the persisted position is the one before the turn.
SourceFailureGivesNotice ==
    [][view'.failed =>
          /\ view'.outcome = "retry_notice"
          /\ paginator_inst'.page = paginator_inst.page
          /\ paginator_inst'.cursor = paginator_inst.cursor]_vars

Searches == {"search", "delete_search"}

SearchClearsListing ==
    [][last'.action \in Searches =>
          /\ paginator_inst'.cursor = 0
          /\ \A u \in Range(children'[Root]) : Matches(search_term', u)]_vars

\* The outcomes of set_quantity that end the turn before the quantity is
\* compared with the stock.
QuantityErrors == {"invalid_format", "error_notice", "product_not_found", "raised"}

\* C14: in SetQuantity, when the product is read with its stock, a submitted
\* integer q is accepted exactly if 1 <= q <= stock; an accepted q is stored
\* as the quantity of the product in progress, a rejected q stores nothing and
\* the flow stays in SetQuantity.
QuantityAcceptedIffInStock ==
    [][(last'.action = "set_quantity" /\ view'.outcome \notin QuantityErrors) =>
         /\ active_scene = "set_quantity"
         /\ (view'.outcome = "confirm_prompt") <=>
                (1 <= last'.uid /\ last'.uid <= last'.stock)
         /\ view'.outcome = "confirm_prompt" =>
                product_processing' = [product_processing EXCEPT !.quantity = last'.uid]
         /\ view'.outcome # "confirm_prompt" =>
                /\ view'.outcome = "invalid_quantity"
                /\ product_processing' = product_processing
                /\ active_scene' = "set_quantity"]_vars

\* C14 witness: a quantity above the stock was refused after a quantity equal
\* to the stock had been stored, and the stored one is still there.
QuantityAcceptedIffInStockWitness ==
    /\ last.action = "set_quantity"
    /\ last.uid = last.stock + 1
    /\ last.stock >= 1
    /\ view.outcome = "invalid_quantity"
    /\ active_scene = "set_quantity"
    /\ product_processing.quantity = last.stock

\* C15: the return to the main menu is handled in every scene and sub-state
\* (and with no scene active); it clears the engine, the search term and the
\* product in progress of the session, and afterwards the active scene is
\* the main menu.
MenuAcceptedEverywhere ==
    /\ [](ENABLED Menu)
    /\ [][last'.action = "menu" =>
            /\ active_scene' = "main_menu"
            /\ paginator_inst' = NoPaginator
            /\ search_term' = NoTerm
            /\ product_processing' = NoProduct
            /\ view'.outcome = "main_menu"]_vars

\* C15 witness: the main menu was reached from SetQuantity, where a product
\* was in progress and the catalog's engine in the session.
MenuAcceptedEverywhereWitness ==
    /\ last.action = "menu"
    /\ last.from = "set_quantity"
    /\ active_scene = "main_menu"
    /\ ~paginator_inst.present
    /\ ~product_processing.present

\* The outcomes of set_quantity on a missing product or missing data of the
\* product in progress.
ProcessingErrors == {"error_notice", "product_not_found"}

\* C16: ProductProcessing is entered only by Catalog's "add to cart", and
\* every end of it other than the return to the main menu (confirmation,
\* cancellation, or the error of a missing product or of missing data of the
\* product in progress) leaves the user in the Catalog scene.
ProcessingReturnsToCatalog ==
    [][/\ (active_scene \notin ProductProcessing /\ active_scene' \in ProductProcessing) =>
            (last'.action = "add_to_cart" /\ active_scene = "catalog")
       /\ (/\ active_scene \in ProductProcessing
           /\ last'.action # "menu"
           /\ \/ active_scene' \notin ProductProcessing
              \/ view'.outcome \in ProcessingErrors) =>
            active_scene' = "catalog"]_vars

\* C17: a valid quantity moves the conversation from SetQuantity to Confirm,
\* and a quantity is added to the cart only by a confirm action received in
\* the Confirm sub-state.
ValidQuantityMovesToConfirm ==
    [][/\ (last'.action = "set_quantity" /\ view'.outcome = "confirm_prompt") =>
            (active_scene = "set_quantity" /\ active_scene' = "confirm")
       /\ (last'.action = "confirm" /\ last'.added > 0) =>
            active_scene = "confirm"]_vars

\* C18: once the main menu has been entered, the active scene is after every
\* turn one of MainMenu, Catalog, Cart, FAQ, SetQuantity and Confirm.
AlwaysAnActiveScene ==
    [][(active_scene \in ActiveScenes) => (active_scene' \in ActiveScenes)]_vars

\* C19: when the Cart's "remove" action has deleted its line and the scene
\* entered again has rendered from the database, the engine of the session
\* is a fresh one at the cart root with cursor 0, its children were fetched
\* with one call at offset 0 from the lines left after the deletion, and the
\* removed line is neither among them nor on the screen.
RemoveGivesFreshCart ==
    [][(/\ last'.action = "delete"
        /\ last'.uid \in removed'
        /\ view'.outcome = "rendered"
        /\ ~view'.failed) =>
         /\ active_scene' = "cart"
         /\ paginator_inst' = NewPaginator
         /\ page' = Root /\ cursor' = 0
         /\ view'.calls = <<[uid |-> Root, limit |-> PageSize(Root), offset |-> 0]>>
         /\ children'[Root] = Slice(Query(Root, NoTerm, removed'), 0, PageSize(Root))
         /\ last'.uid \notin Range(children'[Root])
         /\ \A i \in 1 .. Len(view'.kbd) : view'.kbd[i].uid # last'.uid
         /\ \A u \in Nodes \ {Root} : children'[u] = << >>]_vars

\* C19 witness: the first of two cart lines was removed from its own page,
\* and the cart shown again lists the other line only.
RemoveGivesFreshCartWitness ==
    /\ last.action = "delete"
    /\ last.uid = 1
    /\ removed = {1}
    /\ db.root = 2
    /\ view.outcome = "rendered"
    /\ paginator_inst = NewPaginator
    /\ children[Root] = <<2>>
    /\ Shown = <<2>>

\* C20: in Catalog, Cart and FAQ a navigation event that finds no engine in
\* the session is answered with a rendered page of a fresh engine, and that
\* engine is in the session after the turn.
MissingEngineRecovered ==
    [][(last'.action \in Actions /\ ~paginator_inst.present) =>
         /\ view'.outcome = "rendered"
         /\ paginator_inst'.present]_vars

\* The events whose handler is running.
Running == {e \in Events : turns[e].pc = "running"}

\* C21 (as stated): overlapping events of one user are not mutually
\* excluded: while the turn of one event is running, the handler of another
\* event of the user that has arrived can start and read the session.
OverlappingTurnsBothRead ==
    \A e \in Events :
        (turns[e].pc = "waiting" /\ Running # {}) => ENABLED Begin(e)

\* C21 (amended): at most one turn of a user runs at a time, it holds the
\* lock of the user's key, and the engine it read is the one the session
\* still holds, so its write overwrites no other turn's transition.
TurnsSerialized ==
    /\ Cardinality(Running) <= 1
    /\ \A e \in Running : lock = e /\ turns[e].inst = paginator_inst

\* C21 witness: a second `next` has arrived while the turn of the first is
\* running on an engine an earlier turn has moved, and it waits.
TurnsSerializedWitness ==
    /\ turns[1].pc = "running"
    /\ turns[1].action = "next"
    /\ turns[1].inst.present
    /\ turns[1].inst.cursor > 0
    /\ turns[2].pc = "waiting"
    /\ turns[2].action = "next"

\* The engine user u holds for scene sc, with the nodes it reaches.
Position(u, sc) ==
    [inst |-> sessions[u][sc].inst,
     tree |-> IF sessions[u][sc].inst.present THEN heap[sessions[u][sc].root] ELSE EmptyTree]

\* C22: a turn of one user in one scene changes the current node, cursor
\* and children of no engine of another user and, unless the turn is the
\* return to the main menu, of no engine the same user holds for another
\* scene; and no two engines hold the same root object.
TreeOwnedByOneEngine ==
    /\ [][\A u \in Users, sc \in UserScenes :
            (u # user \/ (sc # scene /\ states'[u] # "main_menu")) =>
                Position(u, sc)' = Position(u, sc)]_vars
    /\ [](\A u1, u2 \in Users, s1, s2 \in UserScenes :
            (/\ sessions[u1][s1].inst.present
             /\ sessions[u2][s2].inst.present
             /\ sessions[u1][s1].root = sessions[u2][s2].root) => (u1 = u2 /\ s1 = s2))

\* C22 witness: user 1 holds an FAQ engine and a catalog engine that has
\* gone down into a category, and user 2 a catalog engine on the second
\* page of the root.
TreeOwnedByOneEngineWitness ==
    /\ sessions[1]["faq"].inst.present
    /\ sessions[1]["catalog"].inst.present
    /\ sessions[1]["catalog"].inst.page = 1
    /\ sessions[2]["catalog"].inst.present
    /\ sessions[2]["catalog"].inst.page = Root
    /\ sessions[2]["catalog"].inst.cursor > 0
    /\ heap[sessions[1]["catalog"].root].children[1] # << >>
    /\ heap[sessions[2]["catalog"].root].children[1] = << >>

\* The old and the new content are of the same kind.
SameKind == chat.image = (chat.old = "photo")

\* The last turn was a button press handled by the scene's navigation.
Pressed == last.action \in Actions /\ chat.event = "callback"

RendererFailureContained ==
    (Pressed /\ chat.shown = "none") =>
        /\ ~chat.raised
        /\ view.outcome # "raised"
        /\ paginator_inst.present
        /\ paginator_inst.page = page
        /\ paginator_inst.cursor = cursor

\* C25: a render calls the content source exactly when the node is no
\* leaf, a source is configured and len(children) <= cursor + page size;
\* it calls it once, with the page size as limit and the number of children
\* known before the call as offset, and appends the rows it returns, in
\* their order, to the children.
FetchExactlyAtEdge ==
    [][last'.action \in Actions =>
        LET pg == page'
            per == PageSize(pg)
            known == Len(children[pg])
            due == /\ ~is_leaf_node(pg)
                   /\ Stored.loader_func \/ ConfigLoader(pg)
                   /\ known <= cursor' + per
            got == LoaderFunction(pg, per, known, NoTerm, {}, FALSE)
        IN  /\ view'.calls = IF due
                             THEN <<[uid |-> pg, limit |-> per, offset |-> known]>>
                             ELSE << >>
            /\ children'[pg] = IF due THEN children[pg] \o got.data ELSE children[pg]
            /\ \A n \in Nodes \ (Range(children'[pg]) \ Range(children[pg])) :
                  n # pg => children'[n] = children[n]]_vars

\* A second page was rendered: the source was asked for the rows after the
\* known ones, and what it returned is at the end of the children.
FetchExactlyAtEdgeWitness ==
    /\ last.action = "next"
    /\ cursor > 0
    /\ view.calls # << >>
    /\ view.calls[1].offset > 0
    /\ view.calls[1].offset = cursor
    /\ Len(children[page]) > view.calls[1].offset

\* C26: on every rendered page 'previous' is offered iff cursor > 0, the
\* page-number indicator iff the known children exceed the page size,
\* 'next' iff the render determined has_more, and 'up' iff the node has a
\* parent.
ControlsMatchPosition ==
    (last.action \in Actions /\ view.outcome = "rendered") =>
        /\ Offers("prev") <=> cursor > 0
        /\ Offers("current") <=> Len(children[page]) > PageSize(page)
        /\ Offers("next") <=> view.has_more
        /\ Offers("up") <=> parent[page] # None

\* A first page with more to come, whose first child carries the label of
\* the 'next' control.
ControlsMatchPositionWitness ==
    /\ last.action \in Actions /\ view.outcome = "rendered"
    /\ labels = ControlName
    /\ page = Root /\ cursor = 0
    /\ children[Root] # << >> /\ children[Root][1] = 1
    /\ Offers("next") /\ Offers("current") /\ ~Offers("prev") /\ ~Offers("up")

RECURSIVE SumOf(_)
SumOf(sizes) == IF sizes = << >> THEN 0 ELSE Head(sizes) + SumOf(Tail(sizes))

\* C27: a rendered page has one descend button for each child in the
\* window [cursor, cursor + page size) of the node's children, in insertion
\* order and bound to the child's id, whatever the labels of the children,
\* and the row sizes add up to the buttons present.
OneButtonPerChild ==
    (last.action \in Actions /\ view.outcome = "rendered") =>
        /\ Shown = Slice(children[page], cursor, cursor + PageSize(page))
        /\ SumOf(view.sizes) = Len(view.kbd)

\* The engine of the session has no content source, and neither has the
\* node it is on.
NoSource == ~Stored.loader_func /\ ~ConfigLoader(page)

\* C28 (as stated): with no content source configured a render fetches
\* nothing and determines has_more = false, so no 'next' control is shown,
\* for every cursor and every number of known children.
NoSourceNoNext ==
    (last.action \in Actions /\ view.outcome = "rendered" /\ NoSource) =>
        /\ view.calls = << >>
        /\ ~view.has_more
        /\ ~Offers("next")

\* C28 (amended): with no content source configured a render fetches
\* nothing, and has_more is true, and 'next' shown, exactly when the node
\* is no leaf and children are already known beyond the window.
NoSourceNextOnlyForKnown ==
    (last.action \in Actions /\ view.outcome = "rendered" /\ NoSource) =>
        /\ view.calls = << >>
        /\ view.has_more <=>
              (~is_leaf_node(page) /\ Len(children[page]) > cursor + PageSize(page))
        /\ Offers("next") <=> view.has_more

\* An engine without a source renders the first page of a root whose
\* known children do not fit it: 'next' is shown.
NoSourceNextOnlyForKnownWitness ==
    /\ last.action \in Actions /\ view.outcome = "rendered" /\ NoSource
    /\ cursor = 0
    /\ Len(children[page]) > PageSize(page)
    /\ view.has_more
    /\ Offers("next")

\* C29: `next` adds one page size to the cursor if children are known
\* beyond the window or a content source is configured on the engine or
\* the node, and leaves the cursor alone otherwise; the node stays the same
\* in both cases.
NextAdvancesOnePage ==
    [][last'.action = "next" =>
        LET per == PageSize(Stored.page)
            more == \/ Stored.cursor + per < Len(children[Stored.page])
                    \/ Stored.loader_func
                    \/ ConfigLoader(Stored.page)
        IN  /\ Stored'.page = Stored.page
            /\ page' = Stored.page
            /\ Stored'.cursor = IF more THEN Stored.cursor + per ELSE Stored.cursor
            /\ cursor' = Stored'.cursor]_vars

\* `next` was pressed on the only page of an engine without a source: the
\* cursor is where it was.
NextAdvancesOnePageWitness ==
    /\ last.action = "next"
    /\ NoSource
    /\ children[page] # << >>
    /\ Len(children[page]) <= PageSize(page)
    /\ Stored.cursor = 0
    /\ view.outcome = "rendered"

\* C30: every navigation action of an engine in the session, also one that
\* changes nothing (`current`, `up` at the root, `prev` at cursor 0, `down`
\* to an unknown id), ends with one render of the position the transition
\* gave, provided the content source and the renderer succeed.
EveryActionRenders ==
    [][(last'.action \in Actions /\ Stored.present /\ ~view'.failed) =>
        LET to == Transition(Tree, Stored, last'.action, last'.uid)
            after == [children |-> children', parent |-> parent']
        IN  /\ view'.outcome = "rendered"
            /\ page' = to.page /\ cursor' = to.cursor
            /\ Stored' = to
            /\ Len(view'.calls) <= 1
            /\ view'.kbd = create_navigation(after, to.page, to.cursor, view'.has_more).kbd]_vars

\* A `down` to an id that is no child was pressed on a page with
\* children: the page is rendered again.
EveryActionRendersWitness ==
    /\ last.action = "down" /\ last.uid = Bogus
    /\ Stored.present
    /\ view.outcome = "rendered"
    /\ ~view.failed
    /\ Shown # << >>
    /\ Stored.cursor > 0

\* The elements of data that are not in seen, each at its first place.
RECURSIVE Firsts(_, _)
Firsts(data, seen) ==
    IF data = << >> THEN << >>
    ELSE IF Head(data) \in seen THEN Firsts(Tail(data), seen)
    ELSE <<Head(data)>> \o Firsts(Tail(data), seen \cup {Head(data)})

\* C31: attaching a node whose id is already a child replaces that child:
\* the number of children and the place of the id stay, and the new node,
\* with no children of its own, has the receiver as parent; attach_children
\* does this for each node in argument order, so that the new ids follow
\* the known ones in the order of their first occurrence.
AttachReplacesInPlace ==
    [][last'.action = "add_children" =>
        LET data == last'.data
            old == children[Root]
        IN  /\ children'[Root] = old \o Firsts(data, Range(old))
            /\ \A u \in Range(data) : parent'[u] = Root /\ children'[u] = << >>
            /\ \A u \in Nodes \ (Range(data) \cup {Root}) :
                  children'[u] = children[u] /\ parent'[u] = parent[u]
            /\ parent'[Root] = parent[Root]
            /\ \A u \in Range(data) \cap Range(old) :
                  /\ IndexOf(children'[Root], u) = IndexOf(old, u)
                  /\ Len(data) = 1 => Len(children'[Root]) = Len(old)]_vars

\* The first category, loaded with its product and followed by another
\* child, was attached again: it is still first, and has no children.
AttachReplacesInPlaceWitness ==
    /\ last.action = "add_children"
    /\ last.data = <<1>>
    /\ Len(children[Root]) >= 2
    /\ children[Root][1] = 1
    /\ children[1] = << >>
    /\ parent[SubId(0, 1)] = 1

\* Sequence a is the beginning of sequence b.
Prefix(a, b) == Len(a) <= Len(b) /\ SubSeq(b, 1, Len(a)) = a

\* The turns that end a navigation session: state.clear() of the menu
\* handler, and the cart's remove, which builds a new engine.
SessionEnds == {"menu", "delete"}

\* C32: while the session keeps its engine, a turn leaves the known
\* children of every node where they are and at most appends to them,
\* unless it is an FAQ search or clear-search, which clears them.
ChildrenOnlyGrow ==
    [][(Stored.present /\ last'.action \notin SessionEnds) =>
        \/ \A n \in Nodes : Prefix(children[n], children'[n])
        \/ last'.action \in Searches]_vars

\* A second page was loaded behind the first, which is still known.
ChildrenOnlyGrowWitness ==
    /\ Stored.present
    /\ last.action = "next"
    /\ view.outcome = "rendered"
    /\ view.calls # << >>
    /\ view.calls[1].offset > 0
    /\ Len(children[page]) > view.calls[1].offset
    /\ scene = "faq"

\* Following the parent links from node n, in at most k steps, ends at the
\* root.
RECURSIVE ReachesRoot(_, _)
ReachesRoot(n, k) ==
    IF n = Root THEN TRUE
    ELSE IF n = None \/ k = 0 THEN FALSE
    ELSE ReachesRoot(parent[n], k - 1)

\* The nodes that hold node c among their children.
Holders(c) == {n \in Nodes : c \in Range(children[n])}

\* C33: the nodes of an engine form a tree: the root has no parent, every
\* node that is a child is the child of exactly one node, which is its
\* parent, and the parent links from the current node lead to the root.
NodesFormTree ==
    /\ parent[Root] = None
    /\ Holders(Root) = {}
    /\ \A c \in Nodes : Holders(c) # {} => Holders(c) = {parent[c]}
    /\ \A n \in Nodes : Cardinality(Range(children[n])) = Len(children[n])
    /\ ReachesRoot(page, Cardinality(Nodes))
    /\ Stored.present => ReachesRoot(Stored.page, Cardinality(Nodes))

\* The engine is on a product, two levels below the root.
NodesFormTreeWitness ==
    /\ Stored.present
    /\ Stored.page = page
    /\ parent[page] \notin {None, Root}
    /\ parent[parent[page]] = Root
    /\ Holders(page) = {parent[page]}

\* The children of the category in the order the catalog presents them:
\* all subcategories, then all products.
Presented == Rows("category", listing.S) \o Rows("product", listing.P)

\* C34: for a category with S subcategories and P products the catalog
\* loader, called with limit L and offset c, returns the rows at positions
\* c .. c+L-1 of 'all subcategories, then all products' and has_more iff
\* S + P > c + L; the successive calls of an engine, each at the number of
\* rows it has, collect every row once and in order, and have them all
\* when has_more is false.
LoaderPagesInOrder ==
    LET c == listing.last.offset
        L == listing.limit
    IN  /\ listing.last # NoCall =>
              /\ listing.last.data = SubSeq(Presented, c + 1, Min(c + L, Len(Presented)))
              /\ listing.last.has_more <=> (listing.S + listing.P > c + L)
        /\ Prefix(listing.got, Presented)
        /\ ~listing.more => listing.got = Presented

\* A call that starts among the subcategories and ends among the
\* products, with more products behind; and all rows collected before.
LoaderPagesInOrderWitness ==
    /\ listing.S >= 1 /\ listing.P >= 2
    /\ listing.last.offset > 0
    /\ listing.last.offset < listing.S
    /\ \E i \in 1 .. Len(listing.last.data) : listing.last.data[i].kind = "product"
    /\ listing.last.has_more
    /\ ~listing.more
    /\ listing.got = Presented

\* C35: after a render of a node that is no leaf, if children are known
\* beyond the window once the render's fetch is applied, the page offers
\* 'next'.
KnownBeyondWindowOffersNext ==
    (/\ last.action \in Actions \cup {"enter"}
     /\ view.outcome = "rendered" /\ ~view.failed
     /\ ~is_leaf_node(page)
     /\ Len(children[page]) > cursor + PageSize(page)) => Offers("next")

\* The position of the engine the session holds: its node and cursor.
EnginePosition ==
    [present |-> paginator_inst.present, page |-> paginator_inst.page,
     cursor |-> paginator_inst.cursor]

\* C36: 'add to cart' and every turn inside ProductProcessing leave the
\* position of the session's engine as it is, and the deny or confirm that
\* ends the sub-flow enters the catalog and renders that same position.
FlowReturnsToPosition ==
    [][/\ (last'.action = "add_to_cart" /\ active_scene' \in ProductProcessing)
            => EnginePosition' = EnginePosition /\ EnginePosition.present
       /\ (active_scene \in ProductProcessing /\ active_scene' \in ProductProcessing)
            => EnginePosition' = EnginePosition
       /\ (active_scene \in ProductProcessing /\ last'.action \in {"deny", "confirm"})
            => /\ active_scene' = "catalog"
               /\ EnginePosition' = EnginePosition
               /\ page' = EnginePosition.page /\ cursor' = EnginePosition.cursor
               /\ view'.outcome = "rendered"]_vars

FlowReturnsToPositionWitness ==
    /\ last.action = "confirm" /\ last.added > 0
    /\ active_scene = "catalog"
    /\ page = Tracked /\ view.outcome = "rendered"

\* C37: a validated quantity is committed at most once.  The cart line
\* changes only in a confirm turn, by the quantity the session holds, and
\* that turn drops the product in progress; a quantity enters the session
\* only through a validated set_quantity after an 'add to cart'; so a
\* confirm turn that follows a confirm turn leaves the line as it is.
QuantityCommittedOnce ==
    [][/\ cart_item'.quantity # cart_item.quantity
            => /\ last'.action = "confirm"
               /\ product_processing.quantity # None
               /\ cart_item'.quantity = cart_item.quantity + product_processing.quantity
               /\ product_processing' = NoProduct
       /\ (product_processing.quantity = None /\ product_processing'.quantity # None)
            => /\ last'.action = "set_quantity"
               /\ product_processing.present
               /\ ValidQuantity(product_processing'.quantity, cart_item.stock)
       /\ (~product_processing.present /\ product_processing'.present)
            => /\ last'.action = "add_to_cart"
               /\ product_processing'.quantity = None
       /\ (last.action = "confirm" /\ last'.action = "confirm")
            => cart_item'.quantity = cart_item.quantity]_vars

QuantityCommittedOnceWitness ==
    /\ last.action = "confirm" /\ last.added = 0
    /\ cart_item.repeated
    /\ cart_item.quantity > 0

\* C38: the quantity of the user's cart line never exceeds the stock.
LineWithinStock == cart_item.quantity <= cart_item.stock

\* Task messages of the delivery in the queue.
Pending == \E r \in Retries : delivery.pending[r] > 0

\* C39: a run whose send failed with retries left has put exactly one task
\* message into the queue, one task makes at most max_retries + 1 send
\* attempts, and once an attempt has succeeded no task message is pending.
OneRetryPerFailure ==
    /\ (delivery.ran.outcome \in {"False", "raises"} /\ delivery.ran.retries < MaxRetries)
           => delivery.ran.scheduled = 1
    /\ delivery.attempts <= MaxRetries + 1
    /\ delivery.sent => ~Pending
====
